---- MODULE Spec2Model ----
(***************************************************************************)
(* Model of src/src/main.rs: the swapchain lifecycle and the per-frame     *)
(* acquire / submit / present / recreate cycle driven by the event loop,   *)
(* and the image-count policy of create_swapchain.                         *)
(*                                                                         *)
(* Objects created by the graphics layer (swapchain, render pass, ...) are *)
(* identified by the tick that created them ("gen", 0 for the build done   *)
(* by main before the loop starts). Calls into the graphics layer whose    *)
(* result the program cannot decide (acquire, then_execute, flush, each    *)
(* recreation stage) are nondeterministic over their possible results.     *)
(***************************************************************************)
EXTENDS Integers, Sequences, FiniteSets

\* Bounds of the model.
MaxTicks == 2
MaxImages == 2
MaxImageCount == 3
MaxExtent == 2
MaxAdapters == 2
MaxFamilies == 2

VARIABLES
    control_flow,               \* *control_flow as left by the last handler
    redraw_requested,           \* the window has a redraw request pending
    close_requested,            \* a CloseRequested event has been handled
    pc,                         \* position inside the RedrawRequested handler
    swapchain,
    swapchain_images,
    render_pass,
    graphics_pipeline,
    framebuffers,
    command_buffers,
    prev_future,
    request_recreate_swapchain,
    image_index,                \* locals of the RedrawRequested handler
    suboptimal,
    future,
    tick,                       \* number of RedrawRequested events handled
    prior,                      \* the captured state when the tick started
    trace,                      \* calls made so far by the current tick
    capabilities,               \* surface capabilities seen by create_swapchain
    inner_size,                 \* surface.window().inner_size()
    swapchain_result,           \* "none" until create_swapchain returns
    num_images,                 \* image count create_swapchain asks for
    dimensions,                 \* extent create_swapchain asks for
    device_result,              \* "none" until create_device_and_queues returns
    selected,                   \* the adapter and queues it returned
    skipped                     \* the adapters the enumeration passed over

vars == <<control_flow, redraw_requested, close_requested, pc, swapchain, swapchain_images,
          render_pass, graphics_pipeline, framebuffers, command_buffers,
          prev_future, request_recreate_swapchain, image_index, suboptimal,
          future, tick, prior, trace, capabilities, inner_size,
          swapchain_result, num_images, dimensions, device_result, selected,
          skipped>>

resources == <<swapchain, swapchain_images, render_pass, graphics_pipeline,
               framebuffers, command_buffers>>
locals == <<image_index, suboptimal, future>>
window == <<control_flow, redraw_requested, close_requested>>
create_vars == <<capabilities, inner_size, swapchain_result, num_images,
                dimensions>>
device_vars == <<device_result, selected, skipped>>

----------------------------------------------------------------------------
\* Futures. prev_future is an Option: NoneFuture is None.

NoneFuture == [kind |-> "none", tick |-> 0]
NowFuture(t) == [kind |-> "now", tick |-> t]
FenceFuture(t) == [kind |-> "fence", tick |-> t]

\* The future a command buffer is executed on top of.
NoChain == [kind |-> "none", prev |-> NoneFuture, tick |-> 0]
AcquireFuture(t) == [kind |-> "acquire", prev |-> NoneFuture, tick |-> t]
Join(prev, t) == [kind |-> "join", prev |-> prev, tick |-> t]

ChainOnAcquireOnly(prev, t) == AcquireFuture(t)

\* if let Some(prev_future) = prev_future.take() { join } else { acquire_future }
ChainOn(prev, t) == IF prev # NoneFuture THEN Join(prev, t) ELSE AcquireFuture(t)

TakeLeavesFuture(prev) == prev

\* prev_future.take() leaves None behind.
Take(prev) == NoneFuture

----------------------------------------------------------------------------
\* Resources.

ImageCounts == 1..MaxImages

Swapchain(g, n) == [gen |-> g, num_images |-> n]
SwapchainImages(sc) ==
    [i \in 1..sc.num_images |-> [swapchain |-> sc.gen, index |-> i - 1]]
RenderPass(g) == [gen |-> g]
GraphicsPipeline(g, rp) == [gen |-> g, render_pass |-> rp]

create_framebuffers(images, rp) ==
    [i \in 1..Len(images) |-> [image |-> images[i], render_pass |-> rp]]

create_command_buffers_first_only(fbs, pipeline) ==
    [i \in 1..Len(fbs) |-> [framebuffer |-> fbs[1], pipeline |-> pipeline]]

create_command_buffers(fbs, pipeline) ==
    [i \in 1..Len(fbs) |-> [framebuffer |-> fbs[i], pipeline |-> pipeline]]

Snapshot ==
    [swapchain |-> swapchain, swapchain_images |-> swapchain_images,
     render_pass |-> render_pass, graphics_pipeline |-> graphics_pipeline,
     framebuffers |-> framebuffers, command_buffers |-> command_buffers,
     prev_future |-> prev_future,
     request_recreate_swapchain |-> request_recreate_swapchain]

\* One call made by the handler, as recorded in trace.
Call(op, res) == [op |-> op, res |-> res, on |-> NoChain]
CallOn(op, res, f) == [op |-> op, res |-> res, on |-> f]
Eprintln == Call("eprintln", "")

\* An Option is a sequence of length 0 (None) or 1 (Some).
NoCapabilities ==
    [min_image_count |-> 0, max_image_count |-> << >>, current_extent |-> << >>,
     min_image_extent |-> <<0, 0>>, max_image_extent |-> <<0, 0>>]

----------------------------------------------------------------------------
\* create_swapchain (main.rs:188-240): the image count and the extent it asks
\* Swapchain::new for, from the capabilities of the surface.

Min(a, b) == IF a <= b THEN a ELSE b
Max(a, b) == IF a >= b THEN a ELSE b

\* Option::unwrap_or
unwrap_or(opt, default) == IF opt = << >> THEN default ELSE opt[1]

NumImagesUncapped(caps) == caps.min_image_count + 1

\* max_image_count.unwrap_or(min_image_count + 1).min(min_image_count + 1)
NumImages(caps) ==
    Min(unwrap_or(caps.max_image_count, caps.min_image_count + 1),
        caps.min_image_count + 1)

DimensionsMinMaxSwapped(caps, size) ==
    IF caps.current_extent # << >>
      THEN caps.current_extent[1]
      ELSE <<Min(caps.min_image_extent[1], Max(caps.max_image_extent[1], size[1])),
             Min(caps.min_image_extent[2], Max(caps.max_image_extent[2], size[2]))>>

\* if let Some(dimensions) = capabilities.current_extent { .. } else { clamp }
Dimensions(caps, size) ==
    IF caps.current_extent # << >>
      THEN caps.current_extent[1]
      ELSE <<Max(caps.min_image_extent[1], Min(caps.max_image_extent[1], size[1])),
             Max(caps.min_image_extent[2], Min(caps.max_image_extent[2], size[2]))>>

\* Capabilities a surface can report: a minimum of at least one image, a
\* maximum that is absent (no limit) or not below the minimum, and extent
\* bounds with min <= max in each component.
Extents == (0..MaxExtent) \X (0..MaxExtent)
\* A window of 800x600 on a surface whose extent may go up to 4096x4096.
WindowSizes == Extents \cup {<<800, 600>>}
MaxImageExtents == Extents \cup {<<4096, 4096>>}
CurrentExtents ==
    {<< >>} \cup {<<e>> : e \in {0, MaxExtent + 1} \X {0, MaxExtent + 1}}
Capabilities ==
    {c \in [min_image_count : 1..MaxImageCount,
            max_image_count : {<< >>} \cup {<<m>> : m \in 1..MaxImageCount},
            current_extent : CurrentExtents,
            min_image_extent : Extents,
            max_image_extent : MaxImageExtents] :
        /\ c.max_image_count # << >> => c.min_image_count <= c.max_image_count[1]
        /\ c.min_image_extent[1] <= c.max_image_extent[1]
        /\ c.min_image_extent[2] <= c.max_image_extent[2]}

\* surface.capabilities(..) fails: the ? returns before anything is computed.
CapabilitiesErr ==
    /\ swapchain_result' = "Err(capabilities)"
    /\ UNCHANGED <<num_images, dimensions>>

\* Swapchain::new is called with num_images and dimensions; it may fail.
SwapchainNew ==
    /\ num_images' = NumImages(capabilities)
    /\ dimensions' = Dimensions(capabilities, inner_size)
    /\ swapchain_result' \in {"Ok", "Err"}

CreateSwapchain ==
    /\ pc = "main"
    /\ swapchain_result = "none"
    /\ \/ CapabilitiesErr
       \/ SwapchainNew
    /\ UNCHANGED <<window, pc, resources, prev_future,
                   request_recreate_swapchain, locals, tick, prior, trace,
                   capabilities, inner_size, device_vars>>

----------------------------------------------------------------------------
\* create_device_and_queues (main.rs:130-186). PhysicalDevice::enumerate is
\* a lazy iterator: each adapter goes through filter_map, map(Device::new)
\* and filter(is_ok) before the next one is taken, and next() stops at the
\* first that comes through.

\* What a queue family answers: supports_graphics(), and
\* surface.is_supported(family), which is Ok(true), Ok(false) or an error.
QueueFamilies ==
    [supports_graphics : BOOLEAN, is_supported : {"Ok(true)", "Ok(false)", "Err"}]
FamilyLists ==
    UNION {[1..n -> QueueFamilies] : n \in 0..MaxFamilies}
\* device_new: whether Device::new succeeds on this adapter.
Adapters == [queue_families : FamilyLists, device_new : BOOLEAN]

NoSummary ==
    [graphics |-> FALSE, present |-> FALSE, present_err |-> FALSE,
     device_new |-> FALSE]
NoSelection ==
    [adapter |-> 0, summary |-> NoSummary, graphics_queue |-> 0,
     present_queue |-> 0]

NotSelecting ==
    /\ device_result = "none"
    /\ selected = NoSelection
    /\ skipped = << >>

supports_graphics(family) == family.supports_graphics

PresentNotDenied(family) == family.is_supported # "Ok(false)"

\* surface.is_supported(*queue_family) == Ok(true)
PresentConfirmed(family) == family.is_supported = "Ok(true)"

\* Iterator::find over the results of the test on each element: the index
\* of the first element that passes, as an Option.
Find(passes) ==
    IF \E i \in DOMAIN passes : passes[i]
      THEN <<CHOOSE i \in DOMAIN passes :
                 /\ passes[i]
                 /\ \A j \in 1..(i - 1) : ~passes[j]>>
      ELSE << >>

graphics_queue_family(a) ==
    Find([i \in DOMAIN a.queue_families |->
            supports_graphics(a.queue_families[i])])
present_queue_family(a) ==
    Find([i \in DOMAIN a.queue_families |->
            PresentConfirmed(a.queue_families[i])])

\* graphics.and(present).and_then(..): the two families without duplicates,
\* or None when either is missing.
UniqueQueueFamilies(a) ==
    LET g == graphics_queue_family(a)
        p == present_queue_family(a)
    IN IF g = << >> \/ p = << >> THEN << >>
       ELSE IF g[1] = p[1] THEN << <<g[1]>> >> ELSE << <<g[1], p[1]>> >>

\* The first queue (one per requested family) whose family passes the test;
\* unwrap() of the find.
QueueOf(queues, passes) == queues[Find(passes)[1]]

\* What the adapter looked like, kept for the adapters passed over.
Summary(a) ==
    [graphics |-> \E i \in DOMAIN a.queue_families :
                     a.queue_families[i].supports_graphics,
     present |-> \E i \in DOMAIN a.queue_families :
                     a.queue_families[i].is_supported = "Ok(true)",
     present_err |-> \E i \in DOMAIN a.queue_families :
                     a.queue_families[i].is_supported = "Err",
     device_new |-> a.device_new]

\* The adapter comes through filter_map, Device::new returns Ok: next() yields it.
Select(a) ==
    LET queues == UniqueQueueFamilies(a)[1]
    IN /\ UniqueQueueFamilies(a) # << >>
       /\ a.device_new
       /\ device_result' = "Ok"
       /\ selected' = [adapter |-> Len(skipped) + 1,
                       summary |-> Summary(a),
                       graphics_queue |->
                         QueueOf(queues,
                                 [i \in DOMAIN queues |->
                                    supports_graphics(a.queue_families[queues[i]])]),
                       present_queue |->
                         QueueOf(queues,
                                 [i \in DOMAIN queues |->
                                    PresentConfirmed(a.queue_families[queues[i]])])]
       /\ UNCHANGED skipped

\* filter_map returns None, or Device::new fails and filter(is_ok) drops it.
Skip(a) ==
    /\ UniqueQueueFamilies(a) = << >> \/ ~a.device_new
    /\ skipped' = Append(skipped, Summary(a))
    /\ UNCHANGED <<device_result, selected>>

EnumerateAdapter ==
    /\ pc = "main"
    /\ device_result = "none"
    /\ Len(skipped) < MaxAdapters
    /\ \E a \in Adapters :
         \/ Select(a)
         \/ Skip(a)
    /\ UNCHANGED <<window, pc, resources, prev_future,
                   request_recreate_swapchain, locals, tick, prior, trace,
                   create_vars>>

\* The enumeration is exhausted: .ok_or(DeviceCreationError::FeatureNotPresent)?
NoAdapterLeft ==
    /\ pc = "main"
    /\ device_result = "none"
    /\ device_result' = "Err"
    /\ UNCHANGED <<window, pc, resources, prev_future,
                   request_recreate_swapchain, locals, tick, prior, trace,
                   create_vars, selected, skipped>>

----------------------------------------------------------------------------
\* The state when event_loop.run is entered (main.rs:392-410).

\* The captured variables of the closure, for a first swapchain of n images.
Captured(n) ==
    /\ control_flow = "Wait"
    /\ redraw_requested = FALSE
    /\ close_requested = FALSE
    /\ swapchain = Swapchain(0, n)
    /\ swapchain_images = SwapchainImages(swapchain)
    /\ render_pass = RenderPass(0)
    /\ graphics_pipeline = GraphicsPipeline(0, render_pass)
    /\ framebuffers = create_framebuffers(swapchain_images, render_pass)
    /\ command_buffers = create_command_buffers(framebuffers, graphics_pipeline)
    /\ prev_future = NoneFuture
    /\ request_recreate_swapchain = FALSE
    /\ image_index = 0
    /\ suboptimal = FALSE
    /\ future = NoChain
    /\ tick = 0
    /\ prior = Snapshot
    /\ trace = << >>

\* create_swapchain has not been called.
NotCreating ==
    /\ capabilities = NoCapabilities
    /\ inner_size = <<0, 0>>
    /\ swapchain_result = "none"
    /\ num_images = 0
    /\ dimensions = <<0, 0>>

Init ==
    /\ pc = "loop"
    /\ \E n \in ImageCounts : Captured(n)
    /\ NotCreating
    /\ NotSelecting

\* main about to call create_device_and_queues.
InitDevice ==
    /\ pc = "main"
    /\ Captured(1)
    /\ NotCreating
    /\ NotSelecting

\* main about to call create_swapchain, for every surface and window size.
InitCreate ==
    /\ pc = "main"
    /\ Captured(1)
    /\ capabilities \in Capabilities
    /\ inner_size \in WindowSizes
    /\ swapchain_result = "none"
    /\ num_images = 0
    /\ dimensions = <<0, 0>>
    /\ NotSelecting

----------------------------------------------------------------------------
\* Window events other than RedrawRequested.

Dispatching == pc = "loop" /\ control_flow = "Wait"

CloseRequestedKeepsWaiting ==
    /\ Dispatching
    /\ control_flow' = "Wait"
    /\ close_requested' = TRUE
    /\ UNCHANGED <<redraw_requested, pc, resources, prev_future,
                   request_recreate_swapchain, locals, tick, prior, trace,
                   create_vars, device_vars>>

\* *control_flow = ControlFlow::Exit; the event loop dispatches no further
\* window event to the closure once Exit is set.
CloseRequested ==
    /\ Dispatching
    /\ control_flow' = "Exit"
    /\ close_requested' = TRUE
    /\ UNCHANGED <<redraw_requested, pc, resources, prev_future,
                   request_recreate_swapchain, locals, tick, prior, trace,
                   create_vars, device_vars>>

Resized ==
    /\ Dispatching
    /\ request_recreate_swapchain' = TRUE
    /\ UNCHANGED <<window, pc, resources, prev_future, locals, tick, prior,
                   trace, create_vars,
                   device_vars>>

MainEventsCleared ==
    /\ Dispatching
    /\ redraw_requested' = TRUE
    /\ UNCHANGED <<control_flow, close_requested, pc, resources, prev_future,
                   request_recreate_swapchain, locals, tick, prior, trace,
                   create_vars,
                   device_vars>>

----------------------------------------------------------------------------
\* Event::RedrawRequested: one tick of the frame scheduler.

AfterSuboptimalIgnored(flag, sub) == flag

\* if suboptimal { request_recreate_swapchain = true; }
AfterSuboptimal(flag, sub) == flag \/ sub

AcquireOutOfDateNoRequest ==
    /\ prev_future' = NowFuture(tick')
    /\ trace' = <<Call("acquire_next_image", "OutOfDate")>>
    /\ pc' = "recreate"
    /\ UNCHANGED <<request_recreate_swapchain, locals>>

AcquireOutOfDateKeepsFuture ==
    /\ request_recreate_swapchain' = TRUE
    /\ trace' = <<Call("acquire_next_image", "OutOfDate")>>
    /\ pc' = "recreate"
    /\ UNCHANGED <<prev_future, locals>>

\* match acquire_next_image(..) { Err(AcquireError::OutOfDate) => .. }
AcquireOutOfDate ==
    /\ request_recreate_swapchain' = TRUE
    /\ prev_future' = NowFuture(tick')
    /\ trace' = <<Call("acquire_next_image", "OutOfDate")>>
    /\ pc' = "recreate"
    /\ UNCHANGED locals

AcquireErrKeepsFuture ==
    /\ trace' = <<Call("acquire_next_image", "Err"), Eprintln>>
    /\ pc' = "recreate"
    /\ UNCHANGED <<prev_future, request_recreate_swapchain, locals>>

\* match acquire_next_image(..) { Err(e) => .. }
AcquireErr ==
    /\ prev_future' = NoneFuture
    /\ trace' = <<Call("acquire_next_image", "Err"), Eprintln>>
    /\ pc' = "recreate"
    /\ UNCHANGED <<request_recreate_swapchain, locals>>

\* match acquire_next_image(..) { Ok((image_index, suboptimal, acquire_future)) => .. }
\* up to the call of then_execute. Indexing command_buffers out of bounds panics.
AcquireOk(idx, sub) ==
    /\ trace' = <<Call("acquire_next_image", IF sub THEN "Ok(suboptimal)" ELSE "Ok")>>
    /\ IF idx + 1 > Len(command_buffers)
         THEN /\ pc' = "panicked"
              /\ UNCHANGED <<prev_future, locals>>
         ELSE /\ image_index' = idx
              /\ suboptimal' = sub
              /\ future' = ChainOn(prev_future, tick')
              /\ prev_future' = Take(prev_future)
              /\ pc' = "then_execute"
    /\ UNCHANGED request_recreate_swapchain

RedrawRequested ==
    /\ Dispatching
    /\ redraw_requested
    /\ tick < MaxTicks
    /\ redraw_requested' = FALSE
    /\ tick' = tick + 1
    /\ prior' = Snapshot
    /\ \/ \E idx \in 0..(swapchain.num_images - 1), sub \in BOOLEAN :
            AcquireOk(idx, sub)
       \/ AcquireOutOfDate
       \/ AcquireErr
    /\ UNCHANGED <<control_flow, close_requested, resources, create_vars,
                   device_vars>>

\* The locals of the Ok arm go out of scope.
DropLocals ==
    /\ image_index' = 0
    /\ suboptimal' = FALSE
    /\ future' = NoChain

\* future.then_execute(graphics_queue.clone(), command_buffer) fails: the
\* if let has no else arm.
ThenExecuteErr ==
    /\ trace' = Append(trace, CallOn("then_execute", "Err", future))
    /\ request_recreate_swapchain' =
         AfterSuboptimal(request_recreate_swapchain, suboptimal)
    /\ pc' = "recreate"
    /\ DropLocals
    /\ UNCHANGED prev_future

ThenExecuteOk ==
    /\ trace' = Append(trace, CallOn("then_execute", "Ok", future))
    /\ pc' = "flush"
    /\ UNCHANGED <<request_recreate_swapchain, prev_future, locals>>

ThenExecute ==
    /\ pc = "then_execute"
    /\ \/ ThenExecuteOk
       \/ ThenExecuteErr
    /\ UNCHANGED <<window, resources, tick, prior, create_vars,
                   device_vars>>

\* The calls of lines 447-453, with the result of the flush.
Presented(res) ==
    trace \o <<Call("then_swapchain_present", ""),
               Call("then_signal_fence_and_flush", res)>>

FlushOkClearsRequest ==
    /\ prev_future' = FenceFuture(tick)
    /\ request_recreate_swapchain' = AfterSuboptimal(FALSE, suboptimal)
    /\ trace' = Presented("Ok")

FlushOk ==
    /\ prev_future' = FenceFuture(tick)
    /\ request_recreate_swapchain' =
         AfterSuboptimal(request_recreate_swapchain, suboptimal)
    /\ trace' = Presented("Ok")

FlushOutOfDateNoRequest ==
    /\ prev_future' = NowFuture(tick)
    /\ request_recreate_swapchain' =
         AfterSuboptimal(request_recreate_swapchain, suboptimal)
    /\ trace' = Presented("OutOfDate")

FlushOutOfDate ==
    /\ prev_future' = NowFuture(tick)
    /\ request_recreate_swapchain' = AfterSuboptimal(TRUE, suboptimal)
    /\ trace' = Presented("OutOfDate")

FlushErr ==
    /\ prev_future' = NoneFuture
    /\ request_recreate_swapchain' =
         AfterSuboptimal(request_recreate_swapchain, suboptimal)
    /\ trace' = Append(Presented("Err"), Eprintln)

Flush ==
    /\ pc = "flush"
    /\ \/ FlushOk
       \/ FlushOutOfDate
       \/ FlushErr
    /\ pc' = "recreate"
    /\ DropLocals
    /\ UNCHANGED <<window, resources, tick, prior, create_vars,
                   device_vars>>

----------------------------------------------------------------------------
\* if request_recreate_swapchain { .. }: the chain of and_then closures.

Stages == <<"recreate", "create_render_pass", "create_graphics_pipeline",
            "create_framebuffers", "create_command_buffers">>

AndThenNoShortCircuit(k, ok) ==
    IF k < Len(Stages) THEN Stages[k + 1] ELSE "loop"

\* Where control goes after stage k returned: and_then runs the next closure
\* on Ok and skips every later closure on Err.
AndThen(k, ok) == IF ok /\ k < Len(Stages) THEN Stages[k + 1] ELSE "loop"

\* The record of stage k's call; if let Err(msg) = result { eprintln!(..) }.
StageTrace(k, ok) ==
    IF ok THEN Append(trace, Call(Stages[k], "Ok"))
          ELSE trace \o <<Call(Stages[k], "Err"), Eprintln>>

ClearRequestOnSuccess(ok) == ~ok
ClearRequestNever(ok) == TRUE

\* request_recreate_swapchain = false; precedes swapchain.recreate().
ClearRequest(ok) == FALSE

NotRequested ==
    /\ ~request_recreate_swapchain
    /\ pc' = "loop"
    /\ UNCHANGED <<resources, request_recreate_swapchain, trace>>

RecreateSwapchain ==
    /\ request_recreate_swapchain
    /\ \E ok \in BOOLEAN, n \in ImageCounts :
         /\ request_recreate_swapchain' = ClearRequest(ok)
         /\ trace' = StageTrace(1, ok)
         /\ pc' = AndThen(1, ok)
         /\ IF ok
              THEN /\ swapchain' = Swapchain(tick, n)
                   /\ swapchain_images' = SwapchainImages(Swapchain(tick, n))
              ELSE UNCHANGED <<swapchain, swapchain_images>>
    /\ UNCHANGED <<render_pass, graphics_pipeline, framebuffers, command_buffers>>

Recreate ==
    /\ pc = "recreate"
    /\ \/ NotRequested
       \/ RecreateSwapchain
    /\ UNCHANGED <<window, prev_future, locals, tick, prior, create_vars,
                   device_vars>>

CreateRenderPass ==
    /\ pc = "create_render_pass"
    /\ \E ok \in BOOLEAN :
         /\ trace' = StageTrace(2, ok)
         /\ pc' = AndThen(2, ok)
         /\ render_pass' = IF ok THEN RenderPass(tick) ELSE render_pass
    /\ UNCHANGED <<window, swapchain, swapchain_images, graphics_pipeline,
                   framebuffers, command_buffers, prev_future,
                   request_recreate_swapchain, locals, tick, prior, create_vars,
                   device_vars>>

CreateGraphicsPipeline ==
    /\ pc = "create_graphics_pipeline"
    /\ \E ok \in BOOLEAN :
         /\ trace' = StageTrace(3, ok)
         /\ pc' = AndThen(3, ok)
         /\ graphics_pipeline' =
              IF ok THEN GraphicsPipeline(tick, render_pass) ELSE graphics_pipeline
    /\ UNCHANGED <<window, swapchain, swapchain_images, render_pass,
                   framebuffers, command_buffers, prev_future,
                   request_recreate_swapchain, locals, tick, prior, create_vars,
                   device_vars>>

CreateFramebuffers ==
    /\ pc = "create_framebuffers"
    /\ \E ok \in BOOLEAN :
         /\ trace' = StageTrace(4, ok)
         /\ pc' = AndThen(4, ok)
         /\ framebuffers' =
              IF ok THEN create_framebuffers(swapchain_images, render_pass)
                    ELSE framebuffers
    /\ UNCHANGED <<window, swapchain, swapchain_images, render_pass,
                   graphics_pipeline, command_buffers, prev_future,
                   request_recreate_swapchain, locals, tick, prior, create_vars,
                   device_vars>>

CreateCommandBuffers ==
    /\ pc = "create_command_buffers"
    /\ \E ok \in BOOLEAN :
         /\ trace' = StageTrace(5, ok)
         /\ pc' = AndThen(5, ok)
         /\ command_buffers' =
              IF ok THEN create_command_buffers(framebuffers, graphics_pipeline)
                    ELSE command_buffers
    /\ UNCHANGED <<window, swapchain, swapchain_images, render_pass,
                   graphics_pipeline, framebuffers, prev_future,
                   request_recreate_swapchain, locals, tick, prior, create_vars,
                   device_vars>>

Next ==
    \/ CloseRequested
    \/ Resized
    \/ MainEventsCleared
    \/ RedrawRequested
    \/ ThenExecute
    \/ Flush
    \/ Recreate
    \/ CreateRenderPass
    \/ CreateGraphicsPipeline
    \/ CreateFramebuffers
    \/ CreateCommandBuffers

Spec == Init /\ [][Next]_vars

NextCreate == CreateSwapchain

SpecCreate == InitCreate /\ [][NextCreate]_vars

NextDevice ==
    \/ EnumerateAdapter
    \/ NoAdapterLeft

SpecDevice == InitDevice /\ [][NextDevice]_vars

----------------------------------------------------------------------------
\* Reading the trace of the current tick.

\* The tick has run to its end: the handler returned to the event loop.
TickDone == pc = "loop" /\ tick > 0

Has(op, res) == \E i \in DOMAIN trace : trace[i].op = op /\ trace[i].res = res
Called(op) == \E i \in DOMAIN trace : trace[i].op = op

IsStage(c) == \E k \in DOMAIN Stages : c.op = Stages[k]
StageCalls == SelectSeq(trace, IsStage)
AllStagesOk == \A k \in DOMAIN Stages : Has(Stages[k], "Ok")
SomeStageErr == \E k \in DOMAIN Stages : Has(Stages[k], "Err")

AcquiredOk == trace # << >> /\ trace[1].res \in {"Ok", "Ok(suboptimal)"}
AcquiredOutOfDate == trace # << >> /\ trace[1].res = "OutOfDate"

\* The resource of stage k is the one built by the current tick.
Replaced(k) ==
    CASE k = 1 -> /\ swapchain.gen = tick
                  /\ swapchain_images = SwapchainImages(swapchain)
      [] k = 2 -> render_pass.gen = tick
      [] k = 3 -> graphics_pipeline.gen = tick
      [] k = 4 -> \A i \in DOMAIN framebuffers :
                      framebuffers[i].image.swapchain = tick
      [] k = 5 -> \A i \in DOMAIN command_buffers :
                      command_buffers[i].framebuffer.image.swapchain = tick

\* The resource of stage k is the one the tick started with.
Kept(k) ==
    CASE k = 1 -> /\ swapchain = prior.swapchain
                  /\ swapchain_images = prior.swapchain_images
      [] k = 2 -> render_pass = prior.render_pass
      [] k = 3 -> graphics_pipeline = prior.graphics_pipeline
      [] k = 4 -> framebuffers = prior.framebuffers
      [] k = 5 -> command_buffers = prior.command_buffers

----------------------------------------------------------------------------
\* C1: the stages of a recreation sequence run in the order swapchain, render
\* pass, pipeline, framebuffers, command buffers; the sequence stops at the
\* first failing stage; the resources of the stages that succeeded are the
\* new ones and those of the failing stage and of every later stage are the
\* ones the tick started with. A sequence with no failure runs all five.
C1_RecreationOrder ==
    tick > 0 =>
      LET st == StageCalls
          n == Len(st)
      IN /\ n <= Len(Stages)
         /\ \A k \in 1..n : st[k].op = Stages[k]
         /\ \A k \in 1..(n - 1) : st[k].res = "Ok"
         /\ \A k \in DOMAIN Stages :
              IF k <= n /\ st[k].res = "Ok"
                THEN Replaced(k) /\ ~Kept(k)
                ELSE Kept(k)
         /\ (n > 0 /\ st[n].res = "Err") => pc = "loop"
         /\ (TickDone /\ n > 0 /\ st[n].res = "Ok") => n = Len(Stages)

\* The pipeline stage failed: swapchain and render pass are new, the rest old.
C1_Witness ==
    /\ TickDone
    /\ Has("create_graphics_pipeline", "Err")
    /\ Replaced(1) /\ Replaced(2)
    /\ Kept(3) /\ Kept(4) /\ Kept(5)

\* C2: after acquisition returned OutOfDate, the tick makes no further
\* acquire, submit or present call (the frame is skipped, not retried), no
\* presentation is requested before swapchain.recreate() is called, and the
\* tick does not end without having called swapchain.recreate().
C2_RecreateBeforePresent ==
    AcquiredOutOfDate =>
      /\ \A i \in 2..Len(trace) :
           trace[i].op \notin {"acquire_next_image", "then_execute",
                               "then_swapchain_present",
                               "then_signal_fence_and_flush"}
      /\ TickDone => Called("recreate")
      /\ pc \notin {"then_execute", "flush", "panicked"}

C2_Witness ==
    /\ TickDone
    /\ AcquiredOutOfDate
    /\ Has("recreate", "Ok")
    /\ ~prior.request_recreate_swapchain

\* C3: when acquisition returned OutOfDate and control reaches the
\* recreate-if-requested step, nothing was submitted or presented in the
\* tick, request_recreate_swapchain is true, and prev_future is the
\* already-complete placeholder made in this tick: neither the future the
\* tick started with nor None.
C3_OutOfDateAcquire ==
    (pc = "recreate" /\ AcquiredOutOfDate) =>
      /\ ~Called("then_execute")
      /\ ~Called("then_swapchain_present")
      /\ request_recreate_swapchain
      /\ prev_future = NowFuture(tick)
      /\ prev_future # prior.prev_future
      /\ prev_future # NoneFuture

\* The case with a pending fence future and the flag clear before the tick.
C3_Witness ==
    /\ pc = "recreate"
    /\ AcquiredOutOfDate
    /\ prior.prev_future.kind = "fence"
    /\ ~prior.request_recreate_swapchain

\* A tick whose acquisition was flagged suboptimal and whose submit and
\* present/flush succeeded.
SuboptimalCleanFrame ==
    /\ trace # << >>
    /\ trace[1].res = "Ok(suboptimal)"
    /\ Has("then_execute", "Ok")
    /\ Has("then_signal_fence_and_flush", "Ok")

\* C4 as stated: after a tick with a suboptimal acquisition and a successful
\* submit and present, request_recreate_swapchain is set when the tick has
\* ended (it holds when the next tick begins) and prev_future is the future
\* of the successful present.
C4_FlagHeldForNextTick ==
    (TickDone /\ SuboptimalCleanFrame) =>
      /\ request_recreate_swapchain
      /\ prev_future = FenceFuture(tick)

\* C4 amended: in such a tick request_recreate_swapchain is set when control
\* reaches the recreate-if-requested step of that same tick, the tick does
\* not end without calling swapchain.recreate(), and prev_future is the
\* future of the successful present.
C4_FlagSetForRecreateStep ==
    SuboptimalCleanFrame =>
      /\ pc = "recreate" => request_recreate_swapchain
      /\ TickDone => Called("recreate")
      /\ prev_future = FenceFuture(tick)

\* The flag was clear when the tick started: only the suboptimal flag set it.
C4_Witness ==
    /\ pc = "recreate"
    /\ SuboptimalCleanFrame
    /\ ~prior.request_recreate_swapchain
    /\ request_recreate_swapchain

\* A tick whose acquisition, submit and present/flush all succeeded with no
\* OutOfDate and no suboptimal flag.
CleanFrame ==
    /\ trace # << >>
    /\ trace[1].res = "Ok"
    /\ Has("then_execute", "Ok")
    /\ Has("then_signal_fence_and_flush", "Ok")

\* C5: a tick that started with request_recreate_swapchain set (a Resized
\* event arrived since the last tick) calls swapchain.recreate() before it
\* ends, whatever its acquisition and presentation did; and if all five
\* stages succeed every resource is the one built in this tick and differs
\* from the one the tick started with.
C5_ResizeRebuilds ==
    (TickDone /\ prior.request_recreate_swapchain) =>
      /\ Called("recreate")
      /\ AllStagesOk =>
           \A k \in DOMAIN Stages : Replaced(k) /\ ~Kept(k)

C5_Witness ==
    /\ TickDone
    /\ prior.request_recreate_swapchain
    /\ CleanFrame
    /\ AllStagesOk
    /\ \A k \in DOMAIN Stages : Replaced(k)

\* Framebuffers and command buffers are index-aligned with the images of the
\* current swapchain.
Aligned ==
    /\ Len(swapchain_images) = swapchain.num_images
    /\ Len(framebuffers) = swapchain.num_images
    /\ Len(command_buffers) = swapchain.num_images
    /\ \A i \in 1..swapchain.num_images :
         /\ swapchain_images[i] = [swapchain |-> swapchain.gen, index |-> i - 1]
         /\ framebuffers[i].image = swapchain_images[i]
         /\ command_buffers[i].framebuffer = framebuffers[i]

\* C6: after the initial build, and after every recreation sequence in which
\* no stage failed, there are as many framebuffers and command buffers as the
\* current swapchain has images, and entry i of each is built from image i.
C6_FrameResourcesAligned ==
    /\ (pc = "loop" /\ tick = 0) => Aligned
    /\ (TickDone /\ AllStagesOk) => Aligned

\* A rebuild that changed the number of images.
C6_Witness ==
    /\ TickDone
    /\ AllStagesOk
    /\ swapchain.num_images # prior.swapchain.num_images
    /\ Len(command_buffers) = swapchain.num_images

\* C7 as stated: request_recreate_swapchain is set only by a Resized event,
\* an OutOfDate result or a suboptimal acquisition, and a tick whose
\* recreation sequence failed at some stage does not clear it.
C7_ClearedOnlyAfterSuccess ==
    /\ (pc = "recreate" /\ request_recreate_swapchain) =>
         \/ prior.request_recreate_swapchain
         \/ AcquiredOutOfDate
         \/ Has("then_signal_fence_and_flush", "OutOfDate")
         \/ trace[1].res = "Ok(suboptimal)"
    /\ (TickDone /\ SomeStageErr) => request_recreate_swapchain

\* C8: every then_execute of a tick is called on the join of the future held
\* when the tick started with the acquire future, or on the acquire future
\* alone when none was held; while the chained future is being built and
\* flushed, prev_future holds nothing (the one in-flight future was moved
\* into the chain).
C8_SubmitChained ==
    /\ \A i \in DOMAIN trace :
         trace[i].op = "then_execute" =>
           IF prior.prev_future # NoneFuture
             THEN trace[i].on = Join(prior.prev_future, tick)
             ELSE trace[i].on = AcquireFuture(tick)
    /\ pc \in {"then_execute", "flush"} =>
         /\ prev_future = NoneFuture
         /\ future.kind \in {"join", "acquire"}
         /\ future.prev = prior.prev_future

\* Frame 2 submitted on top of the fence future of frame 1.
C8_Witness ==
    /\ pc = "flush"
    /\ Has("then_execute", "Ok")
    /\ future.kind = "join"
    /\ future.prev = FenceFuture(tick - 1)

\* C9 as stated: every failing outcome of a tick (acquisition error, failure
\* to submit the command buffer, flush error, failure of a recreation stage)
\* is followed by a diagnostic line before the tick ends.
C9_EveryErrorLogged ==
    TickDone =>
      \A i \in DOMAIN trace :
        trace[i].res = "Err" =>
          \E j \in (i + 1)..Len(trace) : trace[j] = Eprintln

\* C10: whenever create_swapchain gets as far as calling Swapchain::new, the
\* image count it asks for is min(max_image_count or else min_image_count+1,
\* min_image_count+1); it is at least min_image_count and at most
\* max_image_count when there is one; it is the fixed value when
\* min_image_count = max_image_count; and it is 2 for min 1, max 3.
C10_ImageCount ==
    swapchain_result \in {"Ok", "Err"} =>
      LET lo == capabilities.min_image_count
          hi == capabilities.max_image_count
      IN /\ num_images = Min(IF hi = << >> THEN lo + 1 ELSE hi[1], lo + 1)
         /\ lo <= num_images
         /\ hi # << >> => num_images <= hi[1]
         /\ hi = <<lo>> => num_images = lo
         /\ (lo = 1 /\ hi = <<3>>) => num_images = 2

C10_Witness ==
    /\ swapchain_result = "Ok"
    /\ capabilities.min_image_count = 1
    /\ capabilities.max_image_count = <<3>>
    /\ num_images = 2

\* v clamped into [lo, hi].
Clamped(v, lo, hi) == IF v < lo THEN lo ELSE IF v > hi THEN hi ELSE v

\* C11: whenever create_swapchain gets as far as calling Swapchain::new, the
\* extent it asks for is current_extent when the surface reports one;
\* otherwise each component is the window's inner size clamped into
\* [min_image_extent, max_image_extent] and so lies within those bounds; a
\* window of 800x600 with bounds {1,1}..{4096,4096} gives {800,600}.
C11_Extent ==
    swapchain_result \in {"Ok", "Err"} =>
      IF capabilities.current_extent # << >>
        THEN dimensions = capabilities.current_extent[1]
        ELSE /\ \A i \in 1..2 :
                  /\ dimensions[i] = Clamped(inner_size[i],
                                             capabilities.min_image_extent[i],
                                             capabilities.max_image_extent[i])
                  /\ capabilities.min_image_extent[i] <= dimensions[i]
                  /\ dimensions[i] <= capabilities.max_image_extent[i]
             /\ ( /\ inner_size = <<800, 600>>
                  /\ capabilities.min_image_extent = <<1, 1>>
                  /\ capabilities.max_image_extent = <<4096, 4096>> )
                => dimensions = <<800, 600>>

C11_Witness ==
    /\ swapchain_result = "Ok"
    /\ capabilities.current_extent = << >>
    /\ inner_size = <<800, 600>>
    /\ capabilities.min_image_extent = <<1, 1>>
    /\ capabilities.max_image_extent = <<4096, 4096>>
    /\ dimensions = <<800, 600>>

\* An adapter that meets the three conditions of the selection.
Suitable(summary) == summary.graphics /\ summary.present /\ summary.device_new

\* C12: create_device_and_queues passes over an adapter only if it has no
\* graphics family, or no family whose presentation support is confirmed
\* (an error or a negative answer does not count), or Device::new fails on
\* it; it returns the first adapter that is not passed over, with queues of
\* a graphics family and of a confirmed present family; and it returns an
\* error only when the enumeration ends with every adapter passed over.
C12_FirstSuitableAdapter ==
    /\ \A i \in DOMAIN skipped : ~Suitable(skipped[i])
    /\ device_result = "Ok" =>
         /\ selected.adapter = Len(skipped) + 1
         /\ Suitable(selected.summary)
    /\ device_result = "Err" => selected = NoSelection
    /\ device_result = "none" => selected = NoSelection

\* The second adapter is returned; the first had a graphics family and a
\* family whose presentation query failed, and none confirmed.
C12_Witness ==
    /\ device_result = "Ok"
    /\ selected.adapter = 2
    /\ skipped[1].graphics
    /\ skipped[1].present_err
    /\ ~skipped[1].present
    /\ skipped[1].device_new

Coherent(r) ==
    /\ Len(r.swapchain_images) = r.swapchain.num_images
    /\ Len(r.framebuffers) = r.swapchain.num_images
    /\ Len(r.command_buffers) = r.swapchain.num_images
    /\ r.graphics_pipeline.render_pass = r.render_pass
    /\ \A i \in 1..r.swapchain.num_images :
         /\ r.swapchain_images[i].swapchain = r.swapchain.gen
         /\ r.framebuffers[i] =
              [image |-> r.swapchain_images[i], render_pass |-> r.render_pass]
         /\ r.command_buffers[i] =
              [framebuffer |-> r.framebuffers[i], pipeline |-> r.graphics_pipeline]

\* C14 as stated: between ticks, also after a recreation sequence that
\* failed part-way, there are as many framebuffers and command buffers as
\* the current swapchain has images, and command_buffers[image_index] is
\* never out of bounds.
C14_IndexAlwaysValid ==
    /\ pc = "loop" =>
         /\ Len(framebuffers) = swapchain.num_images
         /\ Len(command_buffers) = swapchain.num_images
    /\ pc # "panicked"

\* C15 as stated: a tick never acquires from, submits against or presents
\* with resources of which some come from a failed recreation attempt and
\* the others from an earlier build.
C15_NoMixedResources ==
    (tick > 0 /\ Called("acquire_next_image")) => Coherent(prior)

\* Something in the tick asked for a recreation: an OutOfDate result of the
\* acquire or of the flush, or a suboptimal acquisition.
Triggered ==
    \/ AcquiredOutOfDate
    \/ Has("then_signal_fence_and_flush", "OutOfDate")
    \/ (trace # << >> /\ trace[1].res = "Ok(suboptimal)")

\* The handler returns to the event loop in this step.
TickEnds == pc # "loop" /\ pc' = "loop"

\* C16: the step that ends a tick whose recreation sequence failed leaves
\* request_recreate_swapchain false; between ticks only a Resized event sets
\* it (no step retries on its own); and a tick calls swapchain.recreate()
\* only if the flag was set when the tick started or the tick itself got an
\* OutOfDate result or a suboptimal acquisition.
C16_NoAutomaticRetry ==
    [][ /\ (TickEnds /\ SomeStageErr') => ~request_recreate_swapchain'
        /\ (pc = "loop" /\ pc' = "loop" /\ request_recreate_swapchain'
              /\ ~request_recreate_swapchain)
             => UNCHANGED <<tick, trace, resources, prev_future>>
        /\ (pc = "recreate" /\ Called("recreate")')
             => (prior.request_recreate_swapchain \/ Triggered) ]_vars

\* The tick after a recreation that failed part-way ran to its end without
\* calling swapchain.recreate().
C16_Witness ==
    /\ TickDone
    /\ tick = 2
    /\ ~Coherent(prior)
    /\ ~prior.request_recreate_swapchain
    /\ Has("then_signal_fence_and_flush", "Ok")
    /\ ~Called("recreate")

\* The tick had an acquisition or flush error other than OutOfDate.
OtherError ==
    \/ Has("acquire_next_image", "Err")
    \/ Has("then_signal_fence_and_flush", "Err")

\* C17: when acquisition or the flush failed with an error other than
\* OutOfDate, then from the recreate step on a diagnostic line has been
\* printed and prev_future is None; at the recreate step the flag is what it
\* was when the tick started (or set by a suboptimal acquisition, not by the
\* error) and the loop has not been stopped; and a tick that starts with
\* prev_future None submits on the acquire future alone.
C17_OtherErrorDropsFuture ==
    /\ (OtherError /\ pc # "then_execute" /\ pc # "flush") =>
         /\ Called("eprintln")
         /\ prev_future = NoneFuture
         /\ pc # "panicked"
    /\ (OtherError /\ pc = "recreate") =>
         /\ control_flow = "Wait"
         /\ request_recreate_swapchain =
              (prior.request_recreate_swapchain \/ trace[1].res = "Ok(suboptimal)")
    /\ (tick > 0 /\ prior.prev_future = NoneFuture) =>
         \A i \in DOMAIN trace :
           trace[i].op = "then_execute" => trace[i].on = AcquireFuture(tick)

\* An acquisition error while the future of the previous frame was held.
C17_Witness ==
    /\ pc = "recreate"
    /\ Has("acquire_next_image", "Err")
    /\ prior.prev_future.kind = "fence"
    /\ prev_future = NoneFuture

\* C18: after a successful acquire and submit, a flush that reports
\* OutOfDate leaves request_recreate_swapchain set at the recreate step and
\* prev_future the placeholder made in this tick; a flush that succeeds
\* leaves prev_future the future of this tick's present.
C18_FlushResult ==
    /\ Has("then_signal_fence_and_flush", "OutOfDate") =>
         /\ prev_future = NowFuture(tick)
         /\ pc = "recreate" => request_recreate_swapchain
         /\ Has("then_execute", "Ok") /\ AcquiredOk
    /\ Has("then_signal_fence_and_flush", "Ok") =>
         /\ prev_future = FenceFuture(tick)
         /\ Has("then_execute", "Ok") /\ AcquiredOk

\* Only the flush asked for the recreation.
C18_Witness ==
    /\ pc = "recreate"
    /\ Has("then_signal_fence_and_flush", "OutOfDate")
    /\ trace[1].res = "Ok"
    /\ ~prior.request_recreate_swapchain
    /\ request_recreate_swapchain

\* C19 as stated: unless close was requested, no outcome of a tick stops the
\* loop: a handler that has started can always take its next step, and
\* between ticks (below the bound on ticks) the next event can be delivered.
C19_LoopNeverStops ==
    (~close_requested /\ (pc # "loop" \/ tick < MaxTicks)) => ENABLED Next

\* The number of calls of op in the trace.
CountCalls(op) == Cardinality({i \in DOMAIN trace : trace[i].op = op})

\* C20: the step that ends a tick leaves request_recreate_swapchain false,
\* the tick has called swapchain.recreate() at most once, and it has called
\* it if the flag was set when the tick started or anything in the tick
\* asked for a recreation.
C20_RequestConsumedInTick ==
    [][ TickEnds =>
          /\ ~request_recreate_swapchain'
          /\ CountCalls("recreate")' <= 1
          /\ (prior.request_recreate_swapchain \/ Triggered')
               => Called("recreate")' ]_vars

\* A resize before the tick, a suboptimal acquisition and an OutOfDate flush
\* in it: one recreation, and the flag is clear afterwards.
C20_Witness ==
    /\ TickDone
    /\ prior.request_recreate_swapchain
    /\ trace[1].res = "Ok(suboptimal)"
    /\ Has("then_signal_fence_and_flush", "OutOfDate")
    /\ CountCalls("recreate") = 1
    /\ ~request_recreate_swapchain

\* The tick got to a result that leaves a future to wait on.
LeavesFuture ==
    \/ Has("then_signal_fence_and_flush", "Ok")
    \/ Has("then_signal_fence_and_flush", "OutOfDate")
    \/ AcquiredOutOfDate

\* C21: when the acquire succeeded and then_execute failed, no presentation
\* is requested in the tick, prev_future is None from then on (the earlier
\* future was taken before the submit) and a suboptimal acquisition has set
\* request_recreate_swapchain at the recreate step; and at the end of every
\* tick prev_future holds a future exactly when the tick had a successful
\* flush, a flush OutOfDate or an acquire OutOfDate.
C21_FutureHeldIffFlushedOrOutOfDate ==
    /\ Has("then_execute", "Err") =>
         /\ AcquiredOk
         /\ ~Called("then_swapchain_present")
         /\ ~Called("then_signal_fence_and_flush")
         /\ prev_future = NoneFuture
         /\ (pc = "recreate" /\ trace[1].res = "Ok(suboptimal)")
              => request_recreate_swapchain
    /\ TickDone => (prev_future # NoneFuture <=> LeavesFuture)

\* A failed submit on top of the future of the previous frame, after a
\* suboptimal acquisition: the tick recreated and ended holding no future.
C21_Witness ==
    /\ TickDone
    /\ Has("then_execute", "Err")
    /\ prior.prev_future.kind = "fence"
    /\ trace[1].res = "Ok(suboptimal)"
    /\ ~prior.request_recreate_swapchain
    /\ Called("recreate")
    /\ prev_future = NoneFuture

====
